---- MODULE Spec2Model ----
(***************************************************************************)
(* DockerCleanUpBot.py: delete the images of an Azure Container Registry   *)
(* that are 90 days old or more.  One run of main() is modelled as a       *)
(* state machine whose steps are the external commands it issues and the   *)
(* evaluation of each manifest.  Text (stdout of the az commands) is a     *)
(* sequence of tokens; instants are hours since 2020-01-01T00:00Z.         *)
(***************************************************************************)
EXTENDS Integers, Sequences, FiniteSets, TLC

\* ---------------------------------------------------------------- bounds
MaxRepos == 2
MaxImages == 3

\* ------------------------------------------------------ program constants
RetentionDays == 90
HoursPerDay == 24

\* ------------------------------------------------------------ input sets
RegistryNames == {"myacr"}
RepoNames == <<"app", "web", "db", "api">>
DigestNames == <<"sha256:a", "sha256:b", "sha256:c", "sha256:d">>
HostOffsets == {0, 1}
Now0 == 100 * HoursPerDay
RunHours == {0, 1}

\* timestamps as the registry writes them; the epoch of the instants is
\* 2020-01-01T00:00Z, so Now0 is 2020-04-10T00:00Z
Stamps ==
  { "2020-01-11T00:00:00+01:00",
    "2020-01-11T01:00:00Z",
    "2020-04-11T00:00:00Z" }

\* pd.to_datetime(text): the instant the text names and its UTC offset
ToDatetime(text) ==
  CASE text = "2020-01-11T00:00:00+01:00" ->
         [utc |-> Now0 - RetentionDays * HoursPerDay - 1, off |-> 1]
    [] text = "2020-01-11T01:00:00Z" ->
         [utc |-> Now0 - RetentionDays * HoursPerDay + 1, off |-> 0]
    [] text = "2020-04-11T00:00:00Z" ->
         [utc |-> Now0 + HoursPerDay, off |-> 0]

\* ------------------------------------------------------------------ text
RECURSIVE Concat(_)
Concat(ss) == IF ss = <<>> THEN <<>> ELSE Head(ss) \o Concat(Tail(ss))

\* az acr repository list -o tsv: one repository name per line
RenderRepos(n) ==
  Concat([p \in 1..n |-> <<RepoNames[p], "\n">>])

\* one manifest object of the pretty-printed JSON array
RenderManifest(p, st) ==
  << " ", "{", "\n",
     " ", "\"digest\"", ":", " ", DigestNames[p], ",", "\n",
     " ", "\"timestamp\"", ":", " ", st, "\n",
     " ", "}" >>

\* az acr repository show-manifests: a JSON array, newest first
RenderManifests(ms) ==
  IF ms = <<>> THEN <<"[", "]", "\n">>
  ELSE <<"[", "\n">>
       \o Concat([p \in 1..Len(ms) |->
                    RenderManifest(p, ms[p])
                    \o (IF p < Len(ms) THEN <<",">> ELSE <<>>)
                    \o <<"\n">>])
       \o <<"]", "\n">>

\* the listings of a repository of at most max images
ManifestLists(max) ==
  UNION { [1..n -> Stamps] : n \in 0..max }

\* str.replace(old, ""): drop every occurrence of the one-character string
Remove(text, s) == SelectSeq(text, LAMBDA t : t # s)

\* text[1:-1]
Strip1(text) ==
  IF Len(text) <= 2 THEN <<>> ELSE SubSeq(text, 2, Len(text) - 1)

\* text[:-1] on a list
DropLast(xs) == IF Len(xs) = 0 THEN <<>> ELSE SubSeq(xs, 1, Len(xs) - 1)

StartsWith(text, sep, at) ==
  /\ at + Len(sep) - 1 <= Len(text)
  /\ \A q \in 1..Len(sep) : text[at + q - 1] = sep[q]

\* str.split(sep): the pieces between the non-overlapping occurrences of
\* sep, scanning left to right; always at least one piece
RECURSIVE SplitFrom(_, _, _, _)
SplitFrom(text, sep, at, cur) ==
  IF at > Len(text) THEN <<cur>>
  ELSE IF StartsWith(text, sep, at)
       THEN <<cur>> \o SplitFrom(text, sep, at + Len(sep), <<>>)
       ELSE SplitFrom(text, sep, at + 1, Append(cur, text[at]))

Split(text, sep) == SplitFrom(text, sep, 1, <<>>)

\* output.split("\n")[:-1]
ParseRepos(output) ==
  LET lines == DropLast(Split(output, <<"\n">>))
  IN  [p \in 1..Len(lines) |->
         IF Len(lines[p]) = 1 THEN lines[p][1] ELSE ""]

\* output.replace("\n", "").replace(" ", "")[1:-1].split("},")
ParseManifests(output) ==
  Split(Strip1(Remove(Remove(output, "\n"), " ")), <<"}", ",">>)

\* json.loads of one reassembled object
JsonLoads(text) ==
  IF /\ Len(text) = 9
     /\ text[1] = "{"
     /\ text[2] = "\"digest\""
     /\ text[3] = ":"
     /\ text[5] = ","
     /\ text[6] = "\"timestamp\""
     /\ text[7] = ":"
     /\ text[9] = "}"
  THEN [ok |-> TRUE, digest |-> text[4], timestamp |-> text[8]]
  ELSE [ok |-> FALSE, digest |-> "", timestamp |-> ""]

\* Timestamp.tz_localize(None): the wall-clock fields of the timestamp are
\* kept and its UTC offset is dropped
TzLocalizeNone(ts) == ts.utc + ts.off

\* pd.Timestamp.now(): the wall clock of the host's time zone, naive
TimestampNow(nowUtc, hostOffset) == nowUtc + hostOffset

\* Timedelta.days: whole days, rounded towards minus infinity
Days(hours) == hours \div HoursPerDay

\* ----------------------------------------------------------------- state
VARIABLES
  name,                         \* args.name
  dry_run,                      \* args.dry_run
  hostOffset,                   \* UTC offset of the host's time zone, hours
  pc,                           \* position of main()
  images_to_be_deleted_number,
  images_to_be_deleted_digest,
  deleted_images_total,
  repos,                        \* repositories parsed from the listing
  i,                            \* index of the repository loop
  outputs,                      \* pieces of the current manifest listing
  j,                            \* index of the manifest loop
  k,                            \* index of the delete loop
  raised,                       \* the exception that ended the run, if any
  errors,                       \* messages logged with logging.error
  reports,                      \* the count lines logged at the end
  calls,                        \* external commands issued, with exit status
  memo,                         \* what each external command answered
  clock,                        \* UTC instants read by Timestamp.now()
  evaluated,                    \* manifests classified so far
  first                         \* outcome of the run before a replay

runVars ==
  << pc, images_to_be_deleted_number, images_to_be_deleted_digest,
     deleted_images_total, repos, i, outputs, j, k, raised, errors,
     reports, calls, evaluated >>

vars == << name, dry_run, hostOffset, runVars, memo, clock, first >>

NoError == [type |-> "none", msg |-> <<>>]

AzureError(msg) == [type |-> "AzureError", msg |-> msg]

JSONDecodeError == [type |-> "JSONDecodeError", msg |-> "Expecting value"]

NoFirst == [ran |-> FALSE, dry_run |-> FALSE, calls |-> <<>>,
            digest |-> <<>>, number |-> 0, raised |-> NoError,
            errors |-> <<>>, pc |-> ""]

\* lines 56-58 and the start of main()
Start ==
  /\ pc = "az_login"
  /\ images_to_be_deleted_number = 0
  /\ images_to_be_deleted_digest = <<>>
  /\ deleted_images_total = 0
  /\ repos = <<>>
  /\ i = 1
  /\ outputs = <<>>
  /\ j = 1
  /\ k = 1
  /\ raised = NoError
  /\ errors = <<>>
  /\ reports = <<>>
  /\ calls = <<>>
  /\ evaluated = <<>>

Init ==
  /\ name \in RegistryNames
  /\ dry_run \in BOOLEAN
  /\ hostOffset \in HostOffsets
  /\ Start
  /\ memo = <<>>
  /\ clock = <<>>
  /\ first = NoFirst

\* ------------------------------------------------------ external commands
Ok(out) == [rc |-> 0, out |-> out, err |-> <<>>]

\* a failed command: a non-zero exit status and its complaint on stderr
Failed(cmd) == { [rc |-> 1, out |-> <<>>, err |-> <<"ERROR:">> \o cmd] }

LoginCmd == <<"az", "login", "--identity">>

AcrLoginCmd == <<"az", "acr", "login", "-n", name>>

ListCmd == <<"az", "acr", "repository", "list", "-n", name, "-o", "tsv">>

ShowCmd(repo) ==
  <<"az", "acr", "repository", "show-manifests", "-n", name,
    "--repository", repo, "--orderby", "time_desc">>

\* f"{repo}@{digest}"
ImageId(repo, digest) == <<repo, "@", digest>>

DeleteCmd(image) ==
  <<"az", "acr", "repository", "delete", "-n", name, "--image">> \o image

IsDelete(cmd) == Len(cmd) > 4 /\ cmd[4] = "delete"

IsShow(cmd) == Len(cmd) > 4 /\ cmd[4] = "show-manifests"

\* faulty variant: the exit status is not looked at
Succeeded_always(res) == TRUE

\* proc.returncode == 0
Succeeded(res) == res.rc = 0

\* subprocess.Popen(cmd).communicate(): the command runs once and answers;
\* a command that was already answered (in a replayed run) answers the same
Communicate(cmd, res) ==
  /\ (cmd \in DOMAIN memo => res = memo[cmd])
  /\ memo' = (cmd :> res) @@ memo
  /\ calls' = Append(calls, [cmd |-> cmd, rc |-> res.rc])

\* logging.error(err_msg); raise AzureError(err_msg)
Abort(err_msg) ==
  /\ errors' = Append(errors, err_msg)
  /\ raised' = AzureError(err_msg)
  /\ pc' = "aborted"

\* ---------------------------------------------------------------- actions
\* lines 60-73: az login --identity
AzLogin ==
  /\ pc = "az_login"
  /\ \E res \in {Ok(<<>>)} \cup Failed(LoginCmd) :
       /\ Communicate(LoginCmd, res)
       /\ IF Succeeded(res)
          THEN pc' = "acr_login" /\ UNCHANGED <<errors, raised>>
          ELSE Abort(res.err)
  /\ UNCHANGED << name, dry_run, hostOffset, images_to_be_deleted_number,
                  images_to_be_deleted_digest, deleted_images_total, repos,
                  i, outputs, j, k, reports, clock, evaluated, first >>

\* faulty variant: the registry login is left out of a dry run
AcrLogin_dry_skips ==
  /\ pc = "acr_login"
  /\ IF dry_run
     THEN pc' = "list_repos" /\ UNCHANGED <<errors, raised, calls, memo>>
     ELSE \E res \in {Ok(<<>>)} \cup Failed(AcrLoginCmd) :
            /\ Communicate(AcrLoginCmd, res)
            /\ IF Succeeded(res)
               THEN pc' = "list_repos" /\ UNCHANGED <<errors, raised>>
               ELSE Abort(res.err)
  /\ UNCHANGED << name, dry_run, hostOffset, images_to_be_deleted_number,
                  images_to_be_deleted_digest, deleted_images_total, repos,
                  i, outputs, j, k, reports, clock, evaluated, first >>

\* lines 75-88: az acr login -n NAME
AcrLogin ==
  /\ pc = "acr_login"
  /\ \E res \in {Ok(<<>>)} \cup Failed(AcrLoginCmd) :
       /\ Communicate(AcrLoginCmd, res)
       /\ IF Succeeded(res)
          THEN pc' = "list_repos" /\ UNCHANGED <<errors, raised>>
          ELSE Abort(res.err)
  /\ UNCHANGED << name, dry_run, hostOffset, images_to_be_deleted_number,
                  images_to_be_deleted_digest, deleted_images_total, repos,
                  i, outputs, j, k, reports, clock, evaluated, first >>

RepoListings == { Ok(RenderRepos(n)) : n \in 0..MaxRepos }

\* lines 90-110: az acr repository list, then the head of the loop
ListRepos ==
  /\ pc = "list_repos"
  /\ \E res \in RepoListings \cup Failed(ListCmd) :
       /\ Communicate(ListCmd, res)
       /\ IF Succeeded(res)
          THEN /\ repos' = ParseRepos(res.out)
               /\ i' = 1
               /\ pc' = IF Len(repos') = 0 THEN "report" ELSE "show_manifests"
               /\ UNCHANGED <<errors, raised>>
          ELSE Abort(res.err) /\ UNCHANGED <<repos, i>>
  /\ UNCHANGED << name, dry_run, hostOffset, images_to_be_deleted_number,
                  images_to_be_deleted_digest, deleted_images_total,
                  outputs, j, k, reports, clock, evaluated, first >>

\* the registry holds at most MaxImages images in all
ManifestListings ==
  { Ok(RenderManifests(ms)) : ms \in ManifestLists(MaxImages - Len(evaluated)) }

\* lines 111-129: az acr repository show-manifests for the current repository
ShowManifests ==
  /\ pc = "show_manifests"
  /\ \E res \in ManifestListings \cup Failed(ShowCmd(repos[i])) :
       /\ Communicate(ShowCmd(repos[i]), res)
       /\ IF Succeeded(res)
          THEN /\ outputs' = ParseManifests(res.out)
               /\ j' = 1
               /\ pc' = "evaluate"
               /\ UNCHANGED <<errors, raised>>
          ELSE Abort(res.err) /\ UNCHANGED <<outputs, j>>
  /\ UNCHANGED << name, dry_run, hostOffset, images_to_be_deleted_number,
                  images_to_be_deleted_digest, deleted_images_total, repos,
                  i, k, reports, clock, evaluated, first >>

\* the instants Timestamp.now() can read at the next evaluation: time does
\* not run backwards, and a replayed run reads what the first run read
ClockReadings ==
  LET n    == Len(evaluated) + 1
      prev == IF clock = <<>> THEN Now0 ELSE clock[Len(clock)]
  IN  IF n <= Len(clock) THEN {clock[n]}
      ELSE {t \in {Now0 + h : h \in RunHours} : t >= prev}

\* lines 141: (pd.Timestamp.now() - timestamp).days
Diff(nowUtc, ts) ==
  Days(TimestampNow(nowUtc, hostOffset) - TzLocalizeNone(ToDatetime(ts)))

\* line 144
Eligible(diff) == diff >= RetentionDays

\* faulty variant: the manifest loop is left after its first iteration
LastManifest_break(jj) == TRUE

\* line 132: the manifest loop ends after the last piece of the listing
LastManifest(jj) == ~(jj < Len(outputs))

\* lines 132-147: one iteration of the manifest loop
Evaluate ==
  /\ pc = "evaluate"
  /\ LET output   == IF j < Len(outputs)
                     THEN Append(outputs[j], "}")
                     ELSE outputs[j]
         manifest == JsonLoads(output)
         n        == Len(evaluated) + 1
     IN  IF ~manifest.ok
         THEN /\ raised' = JSONDecodeError
              /\ pc' = "crashed"
              /\ UNCHANGED << images_to_be_deleted_number,
                              images_to_be_deleted_digest, i, j, clock,
                              evaluated >>
         ELSE \E nowUtc \in ClockReadings :
                LET diff == Diff(nowUtc, manifest.timestamp)
                IN  /\ clock' = IF n <= Len(clock) THEN clock
                                ELSE Append(clock, nowUtc)
                    /\ evaluated' =
                         Append(evaluated,
                                [repo |-> repos[i], digest |-> manifest.digest,
                                 utc |-> ToDatetime(manifest.timestamp).utc,
                                 now |-> nowUtc, diff |-> diff])
                    /\ IF Eligible(diff)
                       THEN /\ images_to_be_deleted_digest' =
                                 Append(images_to_be_deleted_digest,
                                        ImageId(repos[i], manifest.digest))
                            /\ images_to_be_deleted_number' =
                                 images_to_be_deleted_number + 1
                       ELSE UNCHANGED << images_to_be_deleted_digest,
                                         images_to_be_deleted_number >>
                    /\ IF ~LastManifest(j)
                       THEN j' = j + 1 /\ UNCHANGED <<i, pc>>
                       ELSE /\ j' = j
                            /\ i' = i + 1
                            /\ pc' = IF i < Len(repos) THEN "show_manifests"
                                     ELSE "report"
                    /\ UNCHANGED raised
  /\ UNCHANGED << name, dry_run, hostOffset, deleted_images_total, repos,
                  outputs, k, errors, reports, calls, memo, first >>

Count(kind, n) == [kind |-> kind, n |-> n]

\* faulty variant: the flag is not looked at
SkipDeletion_never == FALSE

\* line 149: if args.dry_run
SkipDeletion == dry_run

\* lines 149-154: the count of candidates, and the head of the delete loop
Report ==
  /\ pc = "report"
  /\ IF SkipDeletion
     THEN /\ reports' = Append(reports,
                               Count("eligible", images_to_be_deleted_number))
          /\ pc' = "done"
     ELSE IF Len(images_to_be_deleted_digest) = 0
     THEN /\ reports' =
               reports \o << Count("to be deleted", images_to_be_deleted_number),
                             Count("deleted", deleted_images_total) >>
          /\ pc' = "done"
     ELSE /\ reports' =
               Append(reports,
                      Count("to be deleted", images_to_be_deleted_number))
          /\ pc' = "delete"
  /\ k' = 1
  /\ UNCHANGED << name, dry_run, hostOffset, images_to_be_deleted_number,
                  images_to_be_deleted_digest, deleted_images_total, repos,
                  i, outputs, j, raised, errors, calls, memo, clock,
                  evaluated, first >>

\* faulty variant: the delete loop is left after its first iteration
LastCandidate_first(kk) == TRUE

\* line 154: the delete loop ends after the last candidate
LastCandidate(kk) == ~(kk < Len(images_to_be_deleted_digest))

\* lines 154-173: az acr repository delete for the current candidate
DeleteImage ==
  /\ pc = "delete"
  /\ \E res \in {Ok(<<>>)}
                 \cup Failed(DeleteCmd(images_to_be_deleted_digest[k])) :
       /\ Communicate(DeleteCmd(images_to_be_deleted_digest[k]), res)
       /\ IF Succeeded(res)
          THEN /\ deleted_images_total' = deleted_images_total + 1
               /\ k' = k + 1
               /\ IF ~LastCandidate(k)
                  THEN UNCHANGED <<pc, reports>>
                  ELSE /\ reports' = Append(reports,
                                            Count("deleted",
                                                  deleted_images_total'))
                       /\ pc' = "done"
               /\ UNCHANGED <<errors, raised>>
          ELSE /\ Abort(res.err)
               /\ UNCHANGED <<deleted_images_total, k, reports>>
  /\ UNCHANGED << name, dry_run, hostOffset, images_to_be_deleted_number,
                  images_to_be_deleted_digest, repos, i, outputs, j, clock,
                  evaluated, first >>

Terminated == pc \in {"done", "aborted", "crashed"}

Next ==
  \/ AzLogin
  \/ AcrLogin
  \/ ListRepos
  \/ ShowManifests
  \/ Evaluate
  \/ Report
  \/ DeleteImage

Spec == Init /\ [][Next]_vars

\* The same program run a second time with the other value of --dry-run,
\* against the same registry, clock and command answers.
Replay ==
  /\ Terminated
  /\ ~first.ran
  /\ first' = [ran |-> TRUE, dry_run |-> dry_run, calls |-> calls,
               digest |-> images_to_be_deleted_digest,
               number |-> images_to_be_deleted_number, raised |-> raised,
               errors |-> errors, pc |-> pc]
  /\ dry_run' = ~dry_run
  /\ pc' = "az_login"
  /\ images_to_be_deleted_number' = 0
  /\ images_to_be_deleted_digest' = <<>>
  /\ deleted_images_total' = 0
  /\ repos' = <<>>
  /\ i' = 1
  /\ outputs' = <<>>
  /\ j' = 1
  /\ k' = 1
  /\ raised' = NoError
  /\ errors' = <<>>
  /\ reports' = <<>>
  /\ calls' = <<>>
  /\ evaluated' = <<>>
  /\ UNCHANGED <<name, hostOffset, memo, clock>>

NextPair ==
  \/ Next
  \/ Replay

SpecPair == Init /\ [][NextPair]_vars

\* ----------------------------------------------------------- properties
DeleteCalls(cs) == SelectSeq(cs, LAMBDA c : IsDelete(c.cmd))

ReadCalls(cs) == SelectSeq(cs, LAMBDA c : ~IsDelete(c.cmd))

FailedCalls(cs) == {n \in DOMAIN cs : cs[n].rc # 0}

\* the image a delete command names
ImageOf(cmd) == SubSeq(cmd, 8, Len(cmd))

Occurrences(xs, x) == Cardinality({n \in DOMAIN xs : xs[n] = x})

RepoIndex(repo) == CHOOSE p \in DOMAIN repos : repos[p] = repo

\* manifests in the text of a listing
Listed(repo) ==
  Len(SelectSeq(memo[ShowCmd(repo)].out, LAMBDA t : t = "{"))

Classified(repo) == Len(SelectSeq(evaluated, LAMBDA e : e.repo = repo))

\* floor((now_utc - timestamp_utc) in days)
AgeDays(e) == (e.now - e.utc) \div HoursPerDay

\* C1: a run started with --dry-run never issues a delete command, and its
\* deleted counter stays 0, whatever the registry holds and whatever fails.
C1_DryRunNeverDeletes ==
  dry_run => (DeleteCalls(calls) = <<>> /\ deleted_images_total = 0)

C1_Witness ==
  dry_run /\ pc = "done" /\ images_to_be_deleted_number >= 2

\* C2 (state part): a command that exited non-zero is the last command
\* issued; the run is aborted with an AzureError carrying that command's
\* stderr, logged once; after a failed registry login no listing was issued;
\* after a failed manifest listing of repository k nothing of repository k
\* or of a later one was evaluated and nothing was deleted.
C2_Aborted ==
  \A n \in FailedCalls(calls) :
    LET cmd == calls[n].cmd IN
    /\ n = Len(calls)
    /\ pc = "aborted"
    /\ raised = AzureError(memo[cmd].err)
    /\ errors = <<memo[cmd].err>>
    /\ (cmd = AcrLoginCmd => \A m \in DOMAIN calls : calls[m].cmd # ListCmd)
    /\ (IsShow(cmd) =>
          /\ \A m \in DOMAIN evaluated :
               RepoIndex(evaluated[m].repo) < RepoIndex(cmd[8])
          /\ DeleteCalls(calls) = <<>>)

\* C2 (step part): once a command has failed, no step issues a command,
\* evaluates a manifest or changes a counter.
C2_Frozen ==
  FailedCalls(calls) # {} => UNCHANGED runVars

\* C2: fail-fast on the first external command that exits non-zero.
C2_FailFast == []C2_Aborted /\ [][C2_Frozen]_vars

C2_Witness ==
  /\ pc = "aborted"
  /\ Len(calls) = 5
  /\ IsShow(calls[5].cmd)
  /\ images_to_be_deleted_number >= 1

\* C3: in a finished live run in which no command failed, the delete
\* commands issued name the candidates, each once, in collection order.
C3_DeletesAreTheCandidates ==
  (Terminated /\ ~dry_run /\ FailedCalls(calls) = {}) =>
    [n \in DOMAIN DeleteCalls(calls) |-> ImageOf(DeleteCalls(calls)[n].cmd)]
      = images_to_be_deleted_digest

\* C4: every evaluated manifest is in the candidate list exactly once if
\* its age in days is 90 or more and not at all if it is less; the
\* candidate counter is the length of the candidate list.
C4_ClassificationExact ==
  /\ images_to_be_deleted_number = Len(images_to_be_deleted_digest)
  /\ \A n \in DOMAIN evaluated :
       LET e == evaluated[n] IN
       Occurrences(images_to_be_deleted_digest, ImageId(e.repo, e.digest))
         = IF AgeDays(e) >= RetentionDays THEN 1 ELSE 0

\* C5: a successful manifest listing that is an empty JSON array is not an
\* error: it yields no manifest and the run does not stop there.
C5_EmptyListingIsNotAnError ==
  (/\ pc \in {"evaluate", "crashed"}
   /\ memo[ShowCmd(repos[i])].out = RenderManifests(<<>>))
  => (pc # "crashed" /\ Len(outputs) = 0)

\* C6: identity login, registry login and repository listing come first in
\* that order; when the manifests of a repository are requested every
\* manifest of every earlier repository has been classified; a delete is
\* issued only after every repository was listed successfully and all its
\* manifests classified, so no command before it failed.
C6_StepOrder ==
  /\ \A n \in DOMAIN calls :
       /\ (n = 1) = (calls[n].cmd = LoginCmd)
       /\ (n = 2) = (calls[n].cmd = AcrLoginCmd)
       /\ (n = 3) = (calls[n].cmd = ListCmd)
       /\ (n < Len(calls) => calls[n].rc = 0)
       /\ (IsShow(calls[n].cmd) =>
             /\ calls[n].cmd = ShowCmd(repos[n - 3])
             /\ (n = Len(calls) =>
                   \A p \in 1..(n - 4) : Classified(repos[p]) = Listed(repos[p])))
       /\ (IsDelete(calls[n].cmd) =>
             /\ n > 3 + Len(repos)
             /\ \A p \in DOMAIN repos :
                  /\ calls[3 + p] = [cmd |-> ShowCmd(repos[p]), rc |-> 0]
                  /\ Classified(repos[p]) = Listed(repos[p]))

C6_Witness ==
  /\ Len(repos) = 2
  /\ Len(evaluated) = 3
  /\ Len(DeleteCalls(calls)) >= 2

\* C7: the deleted counter never exceeds the candidate counter and is the
\* number of delete commands that succeeded; a completed live run has
\* deleted every candidate and a completed dry run has deleted none.
C7_Counters ==
  /\ deleted_images_total <= images_to_be_deleted_number
  /\ deleted_images_total =
       Len(SelectSeq(calls, LAMBDA c : IsDelete(c.cmd) /\ c.rc = 0))
  /\ (pc = "done" /\ ~dry_run =>
        deleted_images_total = images_to_be_deleted_number)
  /\ (pc = "done" /\ dry_run => deleted_images_total = 0)

C7_Witness ==
  pc = "done" /\ ~dry_run /\ deleted_images_total >= 2

\* C8: the age the evaluator computes for a manifest is the whole number of
\* days between the instant of its creation and the instant of evaluation,
\* whatever the host's time zone and the offset written in the timestamp.
C8_AgeIsUtc ==
  \A n \in DOMAIN evaluated : evaluated[n].diff = AgeDays(evaluated[n])

\* C9: a finished run is either Completed (no command failed, the counts
\* are reported) or Aborted (the error of the first failed command logged
\* once, no count reported; a delete that fails on candidate k leaves k-1
\* images deleted and the later candidates untried).
C9_TwoOutcomes ==
  Terminated =>
    \/ /\ pc = "done"
       /\ FailedCalls(calls) = {}
       /\ errors = <<>>
       /\ reports =
            IF dry_run
            THEN <<Count("eligible", images_to_be_deleted_number)>>
            ELSE <<Count("to be deleted", images_to_be_deleted_number),
                   Count("deleted", deleted_images_total)>>
    \/ /\ pc = "aborted"
       /\ FailedCalls(calls) = {Len(calls)}
       /\ errors = <<memo[calls[Len(calls)].cmd].err>>
       /\ reports = <<>>
       /\ (IsDelete(calls[Len(calls)].cmd) =>
             /\ deleted_images_total = Len(DeleteCalls(calls)) - 1
             /\ Len(DeleteCalls(calls)) <= Len(images_to_be_deleted_digest))

\* how the read steps of a run ended: a failure of a delete is not theirs
ReadEnd(cs, r, es) ==
  IF \E n \in FailedCalls(cs) : IsDelete(cs[n].cmd)
  THEN [raised |-> NoError, errors |-> <<>>]
  ELSE [raised |-> r, errors |-> es]

\* C10: a dry run and a live run given the same registry name and the same
\* answers issue the same read commands, end the read steps the same way
\* (same failure, same error) and compute the same candidates and count;
\* only the live run issues deletes.
C10_DryRunSameReads ==
  (first.ran /\ Terminated) =>
    /\ ReadCalls(calls) = ReadCalls(first.calls)
    /\ images_to_be_deleted_digest = first.digest
    /\ images_to_be_deleted_number = first.number
    /\ ReadEnd(calls, raised, errors)
         = ReadEnd(first.calls, first.raised, first.errors)
    /\ DeleteCalls(IF dry_run THEN calls ELSE first.calls) = <<>>

C10_Witness ==
  /\ first.ran
  /\ pc = "done"
  /\ ~dry_run
  /\ Len(DeleteCalls(calls)) >= 2

====
